---- MODULE Spec2Model ----
(***************************************************************************)
(* Model of the OAuth2 plugin of src/src/index.ts: the three route         *)
(* handlers (login, authorized, logout), the per-request context           *)
(* functions, and the two collaborators the plugin drives (the CSRF state  *)
(* store and the token storage).                                           *)
(***************************************************************************)
EXTENDS Integers, Sequences, FiniteSets, TLC

\* ---------------------------------------------------------------- bounds
MaxRequests == 3      \* route requests handled in one behaviour
MaxTime == 1          \* clock readings 0..MaxTime (seconds)

\* ------------------------------------------------------- value encodings
\* JavaScript undefined / null, for string-valued and number-valued fields.
Undefined == "undefined"
NoNum == -1
NullNum == -2

\* ---------------------------------------------------------- configuration
\* Keys of the configured profile mapping (globalProfiles).
ProfileKeys == {"github", "google"}

\* Property names every object literal inherits from Object.prototype.
InheritedKeys == {"constructor"}

\* Profile names a route can carry in its :name placeholder.
RouteNames == ProfileKeys \cup InheritedKeys \cup {"nope"}

Sessions == {"s1", "s2"}

host == "localhost:3000"
redirectTo == "/"
DefaultExpiresIn == 3600

\* globalProfiles[name] for a configured name: provider and scope.
Profile(name) ==
    [provider |-> [clientId |-> "cid-" \o name, clientSecret |-> "sec-" \o name,
                   authUrl |-> "https://" \o name \o "/authorize",
                   tokenUrl |-> "https://" \o name \o "/token"],
     scope |-> <<"read">>]

\* The JavaScript `in` operator on globalProfiles: own and inherited keys.
NameIn(name) == name \in ProfileKeys \cup InheritedKeys

\* resolveProvider: a 404 response, or globalProfiles[name].  For an
\* inherited key the value is a function of Object.prototype, whose
\* .provider and .scope are undefined.
resolveProvider(name) ==
    IF ~NameIn(name) THEN [kind |-> "response", status |-> 404]
    ELSE IF name \in ProfileKeys
         THEN [kind |-> "profile", hasProvider |-> TRUE]
         ELSE [kind |-> "profile", hasProvider |-> FALSE]

protocol == IF host = "localhost:3000" THEN "http" ELSE "https"

\* buildUri(template, name, external) with the template given as the text
\* before and after the :name placeholder.
buildUri(pre, post, name, external) ==
    IF external THEN protocol \o "://" \o host \o pre \o name \o post
    ELSE pre \o name \o post

buildLoginUri(name) == buildUri("/login/", "", name, TRUE)
buildLogoutUri(name) == buildUri("/logout/", "", name, TRUE)
buildRedirectUri(name) == buildUri("/login/", "/authorized", name, TRUE)

\* ------------------------------------------------------------------ state
VARIABLES
    tokens,       \* token storage: [session][name] -> <<>> or <<record>>
    pendingSets,  \* storage.set calls issued whose write has not landed yet
    states,       \* CSRF state store: live [sess, name, value] entries
    nextState,    \* next value state.generate hands out
    consuming,    \* whether the plugged state store's check removes the state
    inflight,     \* requests suspended at an await
    now,          \* the clock, Date.now() / 1000
    nreq,         \* route requests and context calls received so far
    last,         \* the request or context call that finished last, with
                  \* its response or result
    exchanged     \* per state value: token requests sent after it passed check

vars == <<tokens, pendingSets, states, nextState, consuming, inflight, now,
          nreq, last, exchanged>>

NoToken == <<>>
NoParams == [k \in {} |-> ""]

\* redirect(url): a redirect response to url (with its query parameters).
redirect(url, params) == [url |-> url, params |-> params]
NoTarget == redirect("", NoParams)

NoResp == [ok |-> FALSE, ctype |-> "none", kind |-> "none",
           access_token |-> Undefined, expires_in |-> NoNum, created_at |-> NoNum]

\* The message of a raised error: its text, and the response body whose raw
\* text the message embeds (NoResp when it embeds none).
Message(text, body) == [text |-> text, body |-> body]
NoMessage == Message("", NoResp)

NoLast == [phase |-> "none", sess |-> "s1", name |-> "nope", outcome |-> "none",
           target |-> NoTarget, calls |-> <<>>, check |-> "none", cbState |-> NoNum,
           resp |-> NoResp, setArg |-> NoToken, had |-> FALSE, args |-> <<>>,
           result |-> FALSE, gets |-> <<>>, message |-> NoMessage,
           urls |-> NoParams, header |-> "", id |-> 0]

Init ==
    /\ tokens = [s \in Sessions |-> [n \in RouteNames |-> NoToken]]
    /\ pendingSets = {}
    /\ states = {}
    /\ nextState = 0
    /\ consuming \in BOOLEAN
    /\ inflight = {}
    /\ now = 0
    /\ nreq = 0
    /\ last = NoLast
    /\ exchanged = [v \in 0..(MaxRequests - 1) |-> 0]

\* ------------------------------------------------------ input alphabets
\* Values a callback can carry in its ?state= query parameter: none, or a
\* value some login has handed out (to this or another session or profile).
CallbackStates == {NoNum} \cup (0..(nextState - 1))

\* The requests a route can receive, as <<session, name>>: one session on
\* every name, the other on one configured profile.
Requests == ({"s1"} \X RouteNames) \cup ({"s2"} \X {"github"})

\* A response of the provider's token endpoint.  kind is what the body
\* holds: a JSON object, the JSON value null, or text that is not JSON.
Resp(ok, ctype, kind, access_token, expires_in, created_at) ==
    [ok |-> ok, ctype |-> ctype, kind |-> kind, access_token |-> access_token,
     expires_in |-> expires_in, created_at |-> created_at]

\* Bodies of a 200 response with a JSON content type.
JsonBodies ==
    {Resp(TRUE, "application/json", "object", "tok", e, NoNum) : e \in {NoNum, NullNum, 0, 1}}
    \cup {Resp(TRUE, "application/json; charset=utf-8", "object", "tok", 1, 99),
          Resp(TRUE, "application/json", "object", Undefined, 1, NoNum)}
    \cup {Resp(TRUE, "application/json", k, Undefined, NoNum, NoNum) : k \in {"null", "text"}}

\* Responses with a non-success status or a content type that is not JSON,
\* whatever the body holds.
FailedResponses ==
    {Resp(FALSE, "application/json", "object", "tok", 1, NoNum),
     Resp(TRUE, "text/html", "object", "tok", 1, NoNum),
     Resp(TRUE, "absent", "object", "tok", 1, NoNum),
     Resp(FALSE, "text/html", "text", Undefined, NoNum, NoNum)}

Responses == JsonBodies \cup FailedResponses

\* response.headers.get('Content-Type')?.startsWith('application/json')
StartsWithJson(ctype) ==
    ctype \in {"application/json", "application/json; charset=utf-8"}

\* {...a, ...b}: the keys of b override those of a.
Spread(a, b) ==
    [k \in (DOMAIN a) \cup (DOMAIN b) |-> IF k \in DOMAIN b THEN b[k] ELSE a[k]]

\* provider.auth.params and provider.token.params of the configured profiles.
AuthExtra(name) ==
    IF name = "google"
    THEN [access_type |-> "offline", response_mode |-> "form_post"]
    ELSE NoParams
TokenExtra(name) == NoParams

\* scope.join(' ')
RECURSIVE joinScope(_)
joinScope(scope) ==
    IF scope = <<>> THEN ""
    ELSE IF Len(scope) = 1 THEN scope[1]
    ELSE scope[1] \o " " \o joinScope(Tail(scope))

\* buildUrl(url, params, scope): the url with every entry of params in its
\* query and, for a scope list that is not empty, the scope parameter.
buildUrl(url, params, scope) ==
    [url |-> url,
     params |-> IF scope = <<>> THEN params
                ELSE Spread(params, [scope |-> joinScope(scope)])]

\* ---------------------------------------------------------- collaborators
\* state.check(req, name, state): "check if the state exists".
stateCheck(s, n, v) == [sess |-> s, name |-> n, value |-> v] \in states

\* What check leaves in the store: a consuming store removes what it accepted.
statesAfterCheck(s, n, v) ==
    IF consuming /\ stateCheck(s, n, v)
    THEN states \ {[sess |-> s, name |-> n, value |-> v]}
    ELSE states

\* The write of storage.set(req, name, token) landing.
storageSet(store, s, n, token) == [store EXCEPT ![s][n] = <<token>>]

\* The write of storage.delete(req, name) landing.
storageDelete(store, s, n) == [store EXCEPT ![s][n] = NoToken]

\* storage.get(req, name)
storageGet(s, n) == tokens[s][n]

\* A finished request: what it answered and which collaborators it called.
Done(phase, s, n, outcome, target, calls, check, cb, resp, setArg) ==
    [phase |-> phase, sess |-> s, name |-> n, outcome |-> outcome,
     target |-> target, calls |-> calls, check |-> check, cbState |-> cb,
     resp |-> resp, setArg |-> setArg, had |-> FALSE, args |-> <<>>,
     result |-> FALSE, gets |-> <<>>, message |-> NoMessage,
     urls |-> NoParams, header |-> "", id |-> 0]

\* A request that ended in a raised error with the given message.
Raised(phase, s, n, calls, check, cb, resp, message) ==
    [Done(phase, s, n, "error", NoTarget, calls, check, cb, resp, NoToken)
     EXCEPT !.message = message]

\* ------------------------------------------------------------ login route
\* authParams with the login URI as redirect_uri.
authParamsLoginUri(name, generated) ==
    [client_id |-> Profile(name).provider.clientId,
     client_secret |-> Profile(name).provider.clientSecret,
     redirect_uri |-> buildLoginUri(name),
     response_type |-> "code",
     response_mode |-> "query",
     state |-> generated]

\* The parameters of the authorization redirect, before the provider's own.
authParams(name, generated) ==
    [client_id |-> Profile(name).provider.clientId,
     client_secret |-> Profile(name).provider.clientSecret,
     redirect_uri |-> buildRedirectUri(name),
     response_type |-> "code",
     response_mode |-> "query",
     state |-> generated]

Login(s, n) ==
    /\ nreq < MaxRequests
    /\ nreq' = nreq + 1
    /\ LET context == resolveProvider(n) IN
       IF context.kind = "response"
       THEN /\ last' = Done("login", s, n, "404", NoTarget, <<>>, "none", NoNum,
                            NoResp, NoToken)
            /\ UNCHANGED <<states, nextState>>
       ELSE IF ~context.hasProvider
       THEN \* provider is undefined: provider.clientId throws a TypeError
            \* before state.generate is evaluated
            /\ last' = Raised("login", s, n, <<>>, "none", NoNum, NoResp,
                              Message("TypeError", NoResp))
            /\ UNCHANGED <<states, nextState>>
       ELSE /\ states' = states \cup {[sess |-> s, name |-> n, value |-> nextState]}
            /\ nextState' = nextState + 1
            /\ LET authUrl == buildUrl(Profile(n).provider.authUrl,
                                       Spread(authParams(n, nextState), AuthExtra(n)),
                                       Profile(n).scope)
               IN last' = Done("login", s, n, "redirect",
                               redirect(authUrl.url, authUrl.params),
                               <<"state.generate">>, "none", NoNum, NoResp, NoToken)
    /\ UNCHANGED <<tokens, pendingSets, consuming, inflight, now, exchanged>>

\* ------------------------------------------------------- authorized route
\* tokenParams with the callback URI in its relative form.
tokenParamsRelative(name, code) ==
    [client_id |-> Profile(name).provider.clientId,
     client_secret |-> Profile(name).provider.clientSecret,
     redirect_uri |-> buildUri("/login/", "/authorized", name, FALSE),
     grant_type |-> "authorization_code",
     code |-> code]

\* The parameters of the token request, before the provider's own.
tokenParams(name, code) ==
    [client_id |-> Profile(name).provider.clientId,
     client_secret |-> Profile(name).provider.clientSecret,
     redirect_uri |-> buildRedirectUri(name),
     grant_type |-> "authorization_code",
     code |-> code]

\* Going on whatever state.check answered.
passesCheckAlways(checked) == TRUE

\* Whether the handler goes on after state.check answered `checked`.
passesCheck(checked) == checked

\* Up to the await of fetch: resolve, check the state, send the token request.
AuthorizedStart(s, n, code, cb) ==
    /\ nreq < MaxRequests
    /\ nreq' = nreq + 1
    /\ LET context == resolveProvider(n)
           checked == stateCheck(s, n, cb)
       IN
       IF context.kind = "response"
       THEN \* answered before the query is read
            /\ last' = Done("authorized", s, n, "404", NoTarget, <<>>, "none", NoNum,
                            NoResp, NoToken)
            /\ UNCHANGED <<states, inflight, exchanged>>
       ELSE /\ states' = statesAfterCheck(s, n, cb)
            /\ IF ~passesCheck(checked)
               THEN \* throw new Error('State missmatch')
                    /\ last' = Raised("authorized", s, n, <<"state.check">>,
                                      IF checked THEN "true" ELSE "false", cb,
                                      NoResp, Message("State missmatch", NoResp))
                    /\ UNCHANGED <<inflight, exchanged>>
               ELSE IF ~context.hasProvider
               THEN \* provider is undefined: provider.clientId throws
                    /\ last' = Raised("authorized", s, n, <<"state.check">>,
                                      IF checked THEN "true" ELSE "false", cb,
                                      NoResp, Message("TypeError", NoResp))
                    /\ UNCHANGED <<inflight, exchanged>>
               ELSE /\ inflight' = inflight \cup
                          {[id |-> nreq, phase |-> "authorized", sess |-> s,
                            name |-> n, cbState |-> cb,
                            check |-> IF checked THEN "true" ELSE "false",
                            calls |-> <<"state.check", "fetch">>,
                            url |-> Profile(n).provider.tokenUrl,
                            body |-> Spread(tokenParams(n, code), TokenExtra(n))]}
                    /\ exchanged' = IF cb \in DOMAIN exchanged
                                    THEN [exchanged EXCEPT ![cb] = @ + 1]
                                    ELSE exchanged
                    /\ UNCHANGED last
    /\ UNCHANGED <<tokens, pendingSets, nextState, consuming, now>>

\* token.expires_in = token.expires_in || 3600
expiresInOr(given) == IF given \in {NoNum, NullNum, 0} THEN DefaultExpiresIn ELSE given

\* token.expires_in = token.expires_in ?? 3600
expiresIn(given) == IF given \in {NoNum, NullNum} THEN DefaultExpiresIn ELSE given

\* token.created_at = token.created_at ?? Date.now() / 1000
createdAtKept(given, clock) == IF given = NoNum THEN clock ELSE given

\* token.created_at = Date.now() / 1000
createdAt(given, clock) == clock

\* The record handed to storage.set, built from the parsed response body.
tokenOf(resp, clock) ==
    [token_type |-> "bearer", scope |-> "read",
     expires_in |-> expiresIn(resp.expires_in),
     access_token |-> resp.access_token,
     created_at |-> createdAt(resp.created_at, clock)]

\* Throwing on the status alone.
rejectsStatusOnly(resp) == ~resp.ok

\* Whether the handler throws on the response before it parses the body.
rejectsResponse(resp) == ~resp.ok \/ ~StartsWithJson(resp.ctype)

\* Whether building the token from the parsed body throws: response.json()
\* rejects on text that is not JSON, and null has no expires_in to read.
rejectsBody(resp) == resp.kind \in {"text", "null"}

\* The error raised on a response: `${status}: ${statusText}: ${text}` with
\* the raw body text for a rejected response, else the error of
\* response.json() or of reading a field of null.
responseError(resp) ==
    IF rejectsResponse(resp) THEN Message("status: statusText: text", resp)
    ELSE IF resp.kind = "text" THEN Message("SyntaxError", NoResp)
    ELSE Message("TypeError", NoResp)

\* storage.set called with one request object shared by all sessions.
setTargetShared(r) == <<"s1", r.name>>

\* The session and profile name storage.set is called with: req.request and
\* req.params.name of the request handled.
setTarget(r) == <<r.sess, r.name>>

\* The handler sending the token request again after a rejected response.
AuthorizedResumeRetry(r, resp, landed) ==
    /\ r \in inflight
    /\ r.phase = "authorized"
    /\ rejectsResponse(resp)
    /\ inflight' = (inflight \ {r}) \cup {[r EXCEPT !.calls = Append(@, "fetch")]}
    /\ UNCHANGED <<tokens, pendingSets, states, nextState, consuming, now, nreq,
                   last, exchanged>>

\* From the token response on.  storage.set is called and not awaited: its
\* write has landed when the handler returns (landed) or lands later; a
\* pending write remembers how many requests had been received at the return.
AuthorizedResume(r, resp, landed) ==
    /\ r \in inflight
    /\ r.phase = "authorized"
    /\ inflight' = inflight \ {r}
    /\ IF rejectsResponse(resp) \/ rejectsBody(resp)
       THEN /\ last' = Raised("authorized", r.sess, r.name, r.calls, r.check,
                              r.cbState, resp, responseError(resp))
            /\ UNCHANGED <<tokens, pendingSets>>
       ELSE LET token == tokenOf(resp, now)
                key == setTarget(r)
            IN
            /\ IF landed
               THEN /\ tokens' = storageSet(tokens, key[1], key[2], token)
                    /\ UNCHANGED pendingSets
               ELSE /\ pendingSets' = pendingSets \cup
                          {[id |-> r.id, sess |-> key[1], name |-> key[2],
                            token |-> token, returnedAt |-> nreq]}
                    /\ UNCHANGED tokens
            /\ last' = Done("authorized", r.sess, r.name, "redirect",
                            redirect(redirectTo, NoParams),
                            Append(r.calls, "storage.set"), r.check, r.cbState,
                            resp, <<token>>)
    /\ UNCHANGED <<states, nextState, consuming, now, nreq, exchanged>>

\* The write of a storage.set nobody awaited lands.
StorageSetSettle(p) ==
    /\ p \in pendingSets
    /\ pendingSets' = pendingSets \ {p}
    /\ tokens' = storageSet(tokens, p.sess, p.name, p.token)
    /\ UNCHANGED <<states, nextState, consuming, inflight, now, nreq, last,
                   exchanged>>

\* ----------------------------------------------------------- logout route
\* Up to the await of storage.delete.
LogoutStart(s, n) ==
    /\ nreq < MaxRequests
    /\ nreq' = nreq + 1
    /\ LET context == resolveProvider(n) IN
       IF context.kind = "response"
       THEN /\ last' = Done("logout", s, n, "404", NoTarget, <<>>, "none", NoNum,
                            NoResp, NoToken)
            /\ UNCHANGED inflight
       ELSE /\ inflight' = inflight \cup
                  {[id |-> nreq, phase |-> "logout", sess |-> s, name |-> n,
                    cbState |-> NoNum, check |-> "none",
                    calls |-> <<"storage.delete">>, url |-> "", body |-> NoParams]}
            /\ UNCHANGED last
    /\ UNCHANGED <<tokens, pendingSets, states, nextState, consuming, now,
                   exchanged>>

\* The handler returning its redirect without the delete having landed.
LogoutSettleNoAwait(r) ==
    /\ r \in inflight
    /\ r.phase = "logout"
    /\ inflight' = inflight \ {r}
    /\ last' = [Done("logout", r.sess, r.name, "redirect",
                     redirect(redirectTo, NoParams), r.calls, "none", NoNum,
                     NoResp, NoToken)
                EXCEPT !.had = storageGet(r.sess, r.name) # NoToken, !.id = r.id]
    /\ UNCHANGED <<tokens, pendingSets, states, nextState, consuming, now, nreq,
                   exchanged>>

\* storage.delete settles and the handler returns its redirect.  had records
\* whether the delete found a token, id the number of requests received
\* before this one.
LogoutSettle(r) ==
    /\ r \in inflight
    /\ r.phase = "logout"
    /\ inflight' = inflight \ {r}
    /\ tokens' = storageDelete(tokens, r.sess, r.name)
    /\ last' = [Done("logout", r.sess, r.name, "redirect",
                     redirect(redirectTo, NoParams), r.calls, "none", NoNum,
                     NoResp, NoToken)
                EXCEPT !.had = storageGet(r.sess, r.name) # NoToken, !.id = r.id]
    /\ UNCHANGED <<pendingSets, states, nextState, consuming, now, nreq,
                   exchanged>>

\* ------------------------------------------------------ request context
\* isTokenValid(token) at clock reading `clock`.
isTokenValid(token, clock) ==
    /\ token # NoToken
    /\ clock < token[1].created_at + token[1].expires_in

\* The loop returning true from inside its body, after one valid profile.
authorizedFirstOnly(s, profiles, i) ==
    IF i > Len(profiles) THEN [result |-> TRUE, gets |-> <<>>]
    ELSE [result |-> isTokenValid(storageGet(s, profiles[i]), now),
          gets |-> <<profiles[i]>>]

\* The loop reading every profile before it answers.
authorizedNoShortCircuit(s, profiles, i) ==
    [result |-> \A k \in i..Len(profiles) :
                   isTokenValid(storageGet(s, profiles[k]), now),
     gets |-> SubSeq(profiles, i, Len(profiles))]

\* The loop of authorized(...profiles) from the i-th profile on: the result
\* and the profiles storage.get was called for.
RECURSIVE authorizedFrom(_, _, _)
authorizedFrom(s, profiles, i) ==
    IF i > Len(profiles) THEN [result |-> TRUE, gets |-> <<>>]
    ELSE IF ~isTokenValid(storageGet(s, profiles[i]), now)
    THEN [result |-> FALSE, gets |-> <<profiles[i]>>]
    ELSE LET rest == authorizedFrom(s, profiles, i + 1) IN
         [result |-> rest.result, gets |-> <<profiles[i]>> \o rest.gets]

\* authorized() checking every configured profile when none is named.
authorizedDefaultAll(s, profiles) ==
    authorizedFrom(s, IF profiles = <<>> THEN <<"github", "google">> ELSE profiles, 1)

\* authorized(...profiles)
authorized(s, profiles) == authorizedFrom(s, profiles, 1)

\* The argument lists of the context functions: the configured names, each
\* at most once, in any order (the empty list included).
ProfileLists ==
    {l \in UNION {[1..k -> ProfileKeys] : k \in 0..Cardinality(ProfileKeys)} :
        \A i, j \in DOMAIN l : l[i] = l[j] => i = j}

\* The calls of a context function that reads the token storage: a session
\* with a list of profiles it sends requests for.
CtxCalls ==
    {c \in Sessions \X ProfileLists :
        \A i \in DOMAIN c[2] : <<c[1], c[2][i]>> \in Requests}

\* ctx.authorized(...profiles) called while a request of session s is handled.
CtxAuthorized(s, profiles) ==
    /\ nreq < MaxRequests
    /\ nreq' = nreq + 1
    /\ LET r == authorized(s, profiles) IN
       last' = [NoLast EXCEPT !.phase = "ctx.authorized", !.sess = s,
                              !.outcome = "returned", !.args = profiles,
                              !.result = r.result, !.gets = r.gets]
    /\ UNCHANGED <<tokens, pendingSets, states, nextState, consuming, inflight,
                   now, exchanged>>

\* The names in an argument list.
Range(l) == {l[i] : i \in DOMAIN l}

\* profiles(...) without the default for an empty argument list.
profilesNoDefault(profiles) ==
    [n \in Range(profiles) |->
        [login |-> buildLoginUri(n), logout |-> buildLogoutUri(n)]]

\* profiles(...profiles): the login and logout URI of each named profile, of
\* every key of globalProfiles (Object.keys) when none is named.
profilesOf(profiles) ==
    LET names == IF Len(profiles) = 0 THEN ProfileKeys ELSE Range(profiles) IN
    [n \in names |-> [login |-> buildLoginUri(n), logout |-> buildLogoutUri(n)]]

\* ctx.profiles(...profiles); it does not use the request.
CtxProfiles(profiles) ==
    /\ nreq < MaxRequests
    /\ nreq' = nreq + 1
    /\ last' = [NoLast EXCEPT !.phase = "ctx.profiles", !.outcome = "returned",
                              !.args = profiles, !.urls = profilesOf(profiles)]
    /\ UNCHANGED <<tokens, pendingSets, states, nextState, consuming, inflight,
                   now, exchanged>>

\* tokenHeaders answering without a token when the stored one has expired.
tokenHeadersValidOnly(s, profile) ==
    LET token == storageGet(s, profile) IN
    "Bearer " \o (IF isTokenValid(token, now) THEN token[1].access_token
                  ELSE Undefined)

\* tokenHeaders(profile): `Bearer ${token?.access_token}` of the stored token.
tokenHeaders(s, profile) ==
    LET token == storageGet(s, profile) IN
    "Bearer " \o (IF token = NoToken THEN Undefined ELSE token[1].access_token)

\* ctx.tokenHeaders(profile) called while a request of session s is handled.
CtxTokenHeaders(s, profile) ==
    /\ nreq < MaxRequests
    /\ nreq' = nreq + 1
    /\ last' = [NoLast EXCEPT !.phase = "ctx.tokenHeaders", !.sess = s,
                              !.outcome = "returned", !.args = <<profile>>,
                              !.gets = <<profile>>,
                              !.header = tokenHeaders(s, profile)]
    /\ UNCHANGED <<tokens, pendingSets, states, nextState, consuming, inflight,
                   now, exchanged>>

\* The clock advances.
Tick ==
    /\ now < MaxTime
    /\ now' = now + 1
    /\ UNCHANGED <<tokens, pendingSets, states, nextState, consuming, inflight,
                   nreq, last, exchanged>>

Next ==
    \/ \E q \in Requests : Login(q[1], q[2])
    \/ \E q \in Requests, cb \in CallbackStates :
          AuthorizedStart(q[1], q[2], "abc123", cb)
    \/ \E r \in inflight, resp \in Responses, landed \in BOOLEAN :
          AuthorizedResume(r, resp, landed)
    \/ \E p \in pendingSets : StorageSetSettle(p)
    \/ \E q \in Requests : LogoutStart(q[1], q[2])
    \/ \E r \in inflight : LogoutSettle(r)
    \/ \E c \in CtxCalls : CtxAuthorized(c[1], c[2])
    \/ \E profiles \in ProfileLists : CtxProfiles(profiles)
    \/ \E c \in CtxCalls : Len(c[2]) = 1 /\ CtxTokenHeaders(c[1], c[2][1])
    \/ Tick

Spec == Init /\ [][Next]_vars

\* ================================================================ claims
RouteDone == last.phase \in {"login", "authorized", "logout"}
PostAction == redirect(redirectTo, NoParams)

\* The step in which an authorized handler resumes from its token request.
ResumeStep == \E r \in inflight : r.phase = "authorized" /\ r \notin inflight'

\* The step in which a logout handler returns.
LogoutReturnStep == \E r \in inflight : r.phase = "logout" /\ r \notin inflight'

\* The step in which authorized(...) of the request context is called.
CtxAuthorizedStep ==
    nreq' = nreq + 1 /\ inflight' = inflight /\ last'.phase = "ctx.authorized"

\* C1 (as claimed): a phase handler asked for a name that is not a key of
\* the configured profile mapping answers 404 and calls no collaborator.
C1_UnknownProfileIs404 ==
    (RouteDone /\ last.name \notin ProfileKeys)
        => (last.outcome = "404" /\ last.calls = <<>>)

\* C2: when state.check returns false in the authorized phase the request
\* fails with an error: no token request is sent, storage.set is not called
\* and no redirect is produced.
C2_CheckFalseRaises ==
    /\ (last.phase = "authorized" /\ last.check = "false")
          => /\ last.outcome = "error"
             /\ last.calls = <<"state.check">>
             /\ last.setArg = NoToken
             /\ last.target = NoTarget
    /\ \A r \in inflight : r.phase = "authorized" => r.check = "true"

\* C2 witness: a callback whose state value was handed out by some login
\* but does not pass the check has been rejected.
C2_Witness ==
    /\ last.phase = "authorized" /\ last.name \in ProfileKeys
    /\ last.check = "false" /\ last.cbState # NoNum
    /\ last.outcome = "error"

\* C3 (as claimed): each generated state value lets at most one callback
\* proceed to the token exchange.
C3_AtMostOneExchange == \A v \in DOMAIN exchanged : exchanged[v] <= 1

\* C3 (amended): a callback proceeds to the token exchange only with a state
\* value a login generated, and with a state store whose check removes the
\* state it accepts each value lets at most one callback proceed.
C3_ConsumingStoreOnce ==
    /\ \A v \in DOMAIN exchanged : exchanged[v] > 0 => v < nextState
    /\ consuming => \A v \in DOMAIN exchanged : exchanged[v] <= 1

\* C3 witness: with a consuming store, a second callback presenting a state
\* that already went to the exchange has been rejected.
C3_Witness ==
    /\ consuming
    /\ last.phase = "authorized" /\ last.check = "false" /\ last.outcome = "error"
    /\ last.cbState \in DOMAIN exchanged
    /\ exchanged[last.cbState] = 1

\* C4: a token response with a non-success status or a content type that is
\* not JSON makes the authorized handler fail with an error; storage.set is
\* not called, the token storage is unchanged and no redirect is returned.
C4_FailedResponseRaises ==
    [][(ResumeStep /\ (~last'.resp.ok \/ ~StartsWithJson(last'.resp.ctype)))
          => /\ last'.phase = "authorized"
             /\ last'.outcome = "error"
             /\ last'.calls = <<"state.check", "fetch">>
             /\ last'.setArg = NoToken
             /\ last'.target = NoTarget
             /\ tokens' = tokens
             /\ pendingSets' = pendingSets]_vars

\* C4 witness: a callback failed on a 200 response that is not JSON while a
\* token of an earlier exchange is stored for the same session and profile.
C4_Witness ==
    /\ last.phase = "authorized" /\ last.outcome = "error"
    /\ last.resp.ok /\ last.resp.ctype = "text/html"
    /\ tokens[last.sess][last.name] # NoToken

\* C5 (as claimed): a 200 JSON token response without access_token makes
\* the authorized handler fail, and no token record is persisted.
C5_MissingAccessTokenRaises ==
    (/\ last.phase = "authorized"
     /\ last.resp.ok /\ StartsWithJson(last.resp.ctype)
     /\ last.resp.kind = "object" /\ last.resp.access_token = Undefined)
        => (last.outcome = "error" /\ last.setArg = NoToken)

\* C6 (as claimed): when the authorized handler has returned its redirect
\* to the post-action path, the token record is in the token storage.
C6_StoredAtRedirect ==
    (/\ last.phase = "authorized" /\ last.outcome = "redirect"
     /\ last.resp.access_token # Undefined)
        => storageGet(last.sess, last.name) = last.setArg

\* C7: the record handed to storage.set has expires_in 3600 when the token
\* response omits expires_in, and the provider's value when it has one.
C7_ExpiresInDefault ==
    (last.phase = "authorized" /\ last.outcome = "redirect")
        => /\ last.setArg # NoToken
           /\ last.resp.expires_in = NoNum
                 => last.setArg[1].expires_in = 3600
           /\ last.resp.expires_in >= 0
                 => last.setArg[1].expires_in = last.resp.expires_in

\* C7 witness: a response without expires_in was stored with 3600.
C7_Witness ==
    /\ last.phase = "authorized" /\ last.outcome = "redirect"
    /\ last.resp.expires_in = NoNum
    /\ last.setArg[1].expires_in = 3600

\* C8: the record handed to storage.set carries the clock reading of the
\* exchange as created_at, also when the response has a created_at of its
\* own, and no stored or pending record carries another value than a clock
\* reading.
C8_CreatedAtStamped ==
    [][/\ (ResumeStep /\ last'.outcome = "redirect")
             => (last'.setArg # NoToken /\ last'.setArg[1].created_at = now)
       /\ \A q \in Requests :
             tokens'[q[1]][q[2]] # NoToken
                => tokens'[q[1]][q[2]][1].created_at \in 0..now'
       /\ \A p \in pendingSets' : p.token.created_at \in 0..now']_vars

\* C8 witness: a response carrying its own created_at was exchanged and the
\* record handed to storage.set does not carry that value.
C8_Witness ==
    /\ last.phase = "authorized" /\ last.outcome = "redirect"
    /\ last.resp.created_at = 99
    /\ last.setArg[1].created_at # 99

\* C9: the logout phase of a configured profile ends in a redirect to the
\* post-action path whether or not a token was stored, and when the redirect
\* is returned the delete has landed: no token is stored for the pair.
C9_LogoutRedirects ==
    [][/\ (last'.phase = "logout" /\ last'.name \in ProfileKeys)
             => /\ last'.outcome = "redirect"
                /\ last'.target = PostAction
                /\ last'.calls = <<"storage.delete">>
       /\ LogoutReturnStep
             => /\ last'.phase = "logout"
                /\ tokens'[last'.sess][last'.name] = NoToken]_vars

\* C9 witness: a logout that found a token stored has returned its redirect
\* and the token is gone.
C9_Witness ==
    /\ last.phase = "logout" /\ last.name \in ProfileKeys
    /\ last.outcome = "redirect" /\ last.had
    /\ storageGet(last.sess, last.name) = NoToken

\* C10: authorized(p1, ..., pn) with n >= 1 returns true iff for every named
\* profile a record is stored with now < created_at + expires_in; a missing
\* record makes it false and raises nothing.
C10_AuthorizedIffAllValid ==
    [][(CtxAuthorizedStep /\ Len(last'.args) >= 1)
          => /\ last'.outcome = "returned"
             /\ last'.result <=>
                   \A i \in 1..Len(last'.args) :
                      LET t == tokens[last'.sess][last'.args[i]] IN
                      /\ t # NoToken
                      /\ now < t[1].created_at + t[1].expires_in]_vars

\* C10 witness: authorized(A, B) returned false with a valid token for A
\* and none for B.
C10_Witness ==
    /\ last.phase = "ctx.authorized" /\ Len(last.args) = 2
    /\ ~last.result
    /\ isTokenValid(storageGet(last.sess, last.args[1]), now)
    /\ storageGet(last.sess, last.args[2]) = NoToken

\* The step in which profiles(...) of the request context is called.
CtxProfilesStep ==
    nreq' = nreq + 1 /\ inflight' = inflight /\ last'.phase = "ctx.profiles"

\* The step in which tokenHeaders(...) of the request context is called.
CtxTokenHeadersStep ==
    nreq' = nreq + 1 /\ inflight' = inflight /\ last'.phase = "ctx.tokenHeaders"

\* C11: profiles() returns a map keyed by exactly the configured profile
\* names and profiles(p1..pn) one keyed by exactly the named profiles; each
\* entry holds exactly the external login and logout URI of its profile, and
\* the call neither reads nor writes the token store or the state store.
C11_ProfilesUrls ==
    [][CtxProfilesStep
          => /\ DOMAIN last'.urls =
                   (IF last'.args = <<>> THEN {"github", "google"}
                    ELSE {last'.args[i] : i \in DOMAIN last'.args})
             /\ \A n \in DOMAIN last'.urls :
                   last'.urls[n] =
                      [login |-> "http://localhost:3000/login/" \o n,
                       logout |-> "http://localhost:3000/logout/" \o n]
             /\ last'.gets = <<>> /\ last'.calls = <<>>
             /\ tokens' = tokens /\ pendingSets' = pendingSets
             /\ states' = states /\ nextState' = nextState]_vars

\* C11 witness: profiles() without arguments has returned an entry for every
\* configured profile.
C11_Witness ==
    /\ last.phase = "ctx.profiles" /\ last.args = <<>>
    /\ DOMAIN last.urls = ProfileKeys
    /\ last.urls["google"].logout = "http://localhost:3000/logout/google"

C13_TokenNeverInOutput ==
    RouteDone
        => /\ last.message.body.access_token = Undefined
           /\ "access_token" \notin DOMAIN last.target.params

\* A login on a configured profile has answered with its redirect.
LoginRedirected ==
    last.phase = "login" /\ last.name \in ProfileKeys /\ last.outcome = "redirect"

\* The external callback URI of a profile.
CallbackUri(n) == "http://localhost:3000/login/" \o n \o "/authorized"

\* What the engine puts under the five parameters of the claim for a login
\* on profile n that generated state value v.
EngineParams(n, v) ==
    [state |-> v, redirect_uri |-> CallbackUri(n), client_id |-> "cid-" \o n,
     response_type |-> "code", response_mode |-> "query"]

\* C14 (as claimed): the redirect of a login on a configured profile carries
\* the generated state, the external callback URI, the provider's client id,
\* response_type=code and response_mode=query, whatever the provider's extra
\* authorization params are.
C14_LoginQuery ==
    LoginRedirected
        => \A k \in DOMAIN EngineParams(last.name, nextState - 1) :
              /\ k \in DOMAIN last.target.params
              /\ last.target.params[k] = EngineParams(last.name, nextState - 1)[k]

\* C14 (amended): each of the five parameters has the engine's value unless
\* the provider's extra authorization params carry the same key, whose value
\* then replaces the engine's.
C14_LoginQueryUnlessOverridden ==
    LoginRedirected
        => /\ last.target.url = "https://" \o last.name \o "/authorize"
           /\ \A k \in DOMAIN EngineParams(last.name, nextState - 1) :
                 /\ k \in DOMAIN last.target.params
                 /\ last.target.params[k] =
                       IF k \in DOMAIN AuthExtra(last.name)
                       THEN AuthExtra(last.name)[k]
                       ELSE EngineParams(last.name, nextState - 1)[k]

\* C14 witness: a login on the profile whose provider sets response_mode has
\* redirected with the provider's value and the state just generated.
C14_Witness ==
    /\ LoginRedirected /\ last.name = "google"
    /\ last.target.params.response_mode = "form_post"
    /\ last.target.params.state = nextState - 1
    /\ [sess |-> last.sess, name |-> last.name, value |-> nextState - 1] \in states

C16_CalledOnce ==
    /\ (RouteDone /\ last.name \in ProfileKeys) =>
          /\ last.phase = "login" => last.calls = <<"state.generate">>
          /\ last.phase = "logout" => last.calls = <<"storage.delete">>
          /\ last.phase = "authorized" =>
                /\ last.check = "false" => last.calls = <<"state.check">>
                /\ (last.check = "true" /\ last.outcome = "error")
                      => last.calls = <<"state.check", "fetch">>
                /\ last.outcome = "redirect"
                      => last.calls = <<"state.check", "fetch", "storage.set">>
                /\ last.check \in {"true", "false"}
    /\ \A r \in inflight :
          /\ r.phase = "authorized" => r.calls = <<"state.check", "fetch">>
          /\ r.phase = "logout" => r.calls = <<"storage.delete">>
    /\ \A p, q \in pendingSets : p.id = q.id => p = q

\* C16 witness: a callback has gone through check, token request and
\* storage.set.
C16_Witness ==
    /\ last.phase = "authorized" /\ last.outcome = "redirect"
    /\ last.calls = <<"state.check", "fetch", "storage.set">>
    /\ exchanged[last.cbState] = 1

\* The number of profiles authorized(...) has to read in the store `tokens`
\* at clock `now`: up to and including the first one whose token is missing
\* or invalid, all of them when there is none.
ReadUpTo(s, profiles) ==
    LET bad == {i \in DOMAIN profiles :
                   \/ tokens[s][profiles[i]] = NoToken
                   \/ ~(now < tokens[s][profiles[i]][1].created_at
                                + tokens[s][profiles[i]][1].expires_in)}
    IN IF bad = {} THEN Len(profiles)
       ELSE CHOOSE i \in bad : \A j \in bad : i <= j

\* C17: authorized(p1, ..., pn) calls storage.get for the profiles in
\* argument order and stops at the first profile whose token is missing or
\* invalid: no profile listed after that one is read.
C17_ShortCircuit ==
    [][CtxAuthorizedStep
          => last'.gets = SubSeq(last'.args, 1, ReadUpTo(last'.sess, last'.args))]_vars

\* C17 witness: authorized(A, B) read A only, found it missing or invalid,
\* while B holds a valid token.
C17_Witness ==
    /\ last.phase = "ctx.authorized" /\ Len(last.args) = 2
    /\ last.gets = <<last.args[1]>>
    /\ ~last.result
    /\ ~isTokenValid(storageGet(last.sess, last.args[1]), now)
    /\ isTokenValid(storageGet(last.sess, last.args[2]), now)

\* C18: authorized() with no profile name returns true without calling
\* storage.get; it does not stand for "all configured profiles".
C18_NoNamesIsTrue ==
    (last.phase = "ctx.authorized" /\ last.args = <<>>)
        => (last.outcome = "returned" /\ last.result /\ last.gets = <<>>)

\* C18 witness: authorized() returned true for a session that holds a token
\* for no configured profile.
C18_Witness ==
    /\ last.phase = "ctx.authorized" /\ last.args = <<>> /\ last.result
    /\ \A n \in ProfileKeys : storageGet(last.sess, n) = NoToken
    /\ nreq >= 1

\* C19 (as claimed): after a logout for (session, profile) has returned its
\* redirect, a callback for the same pair that had returned its redirect
\* before that logout began does not make the token reappear.
C19_LogoutStays ==
    [][\A p \in pendingSets :
          (/\ p \notin pendingSets'
           /\ last.phase = "logout" /\ last.outcome = "redirect"
           /\ last.sess = p.sess /\ last.name = p.name
           /\ p.returnedAt <= last.id)
              => tokens'[p.sess][p.name] = NoToken]_vars

\* C20: a step changes the stored token of a pair (session, profile) only
\* on behalf of a request handled for that very pair (its handler returning,
\* or the write of its storage.set landing), and a storage.set is issued
\* only with the session and the route name of the request handled.
C20_OtherPairsUntouched ==
    [][/\ \A s \in Sessions, n \in RouteNames :
             tokens'[s][n] # tokens[s][n]
                => \/ \E r \in inflight \ inflight' : r.sess = s /\ r.name = n
                   \/ \E p \in pendingSets \ pendingSets' :
                         p.sess = s /\ p.name = n
       /\ \A p \in pendingSets' \ pendingSets :
             \E r \in inflight \ inflight' :
                /\ r.phase = "authorized" /\ r.id = p.id
                /\ r.sess = p.sess /\ r.name = p.name]_vars

\* C20 witness: a callback of one session has stored its token for a
\* profile while the other session holds none for the same profile.
C20_Witness ==
    /\ last.phase = "authorized" /\ last.outcome = "redirect"
    /\ last.sess = "s2" /\ last.name = "github"
    /\ storageGet("s2", "github") = last.setArg
    /\ storageGet("s1", "github") = NoToken
====
